---- MODULE Spec2Model ----
(***************************************************************************)
(* Model of the bounded lazy scanner of fast-gitingest:                    *)
(*   gitingest/src/utils/patterns.rs  (pattern engine, .gitignore parser,  *)
(*                                     binary classifier)                  *)
(*   gitingest/src/utils/files.rs     (scan_directory_lazy, tree builder,  *)
(*                                     tree renderer, content file)        *)
(*   gitingest/src/models.rs          (default matcher, write_content)     *)
(*   gitingest/src/services.rs        (process_repository, statistics)     *)
(* Strings are sequences of one-character strings; a path is a sequence of *)
(* components, each a string; the text of a path joins them with "/".      *)
(***************************************************************************)
EXTENDS Integers, Sequences, FiniteSets, TLC

(***************************************************************************)
(* Bounds of the model.                                                    *)
(***************************************************************************)
MaxDepthBound == 2
MaxFilesBound == 4
MaxLimitBound == 2
MaxBatchBound == 3

(***************************************************************************)
(* Strings and paths.                                                      *)
(***************************************************************************)
\* The characters of the model in byte order (Rust compares String bytewise).
ByteOrder ==
    <<" ", "!", "#", "*", "-", ".", "/",
      "0", "1", "2", "3", "4", "5", "6", "7", "8", "9", "?",
      "A", "B", "C", "D", "E", "F", "G", "H", "I", "J", "K", "L", "M",
      "N", "O", "P", "Q", "R", "S", "T", "U", "V", "W", "X", "Y", "Z",
      "[", "_",
      "a", "b", "c", "d", "e", "f", "g", "h", "i", "j", "k", "l", "m",
      "n", "o", "p", "q", "r", "s", "t", "u", "v", "w", "x", "y", "z">>

Ord(c) == CHOOSE i \in 1..Len(ByteOrder) : ByteOrder[i] = c

\* a.name.cmp(&b.name): lexicographic comparison of two strings, a < b.
RECURSIVE StrLess(_, _)
StrLess(a, b) ==
    IF b = <<>> THEN FALSE
    ELSE IF a = <<>> THEN TRUE
    ELSE IF Head(a) = Head(b) THEN StrLess(Tail(a), Tail(b))
    ELSE Ord(Head(a)) < Ord(Head(b))

\* Path::parent of a path with at least one component.
Parent(p) == SubSeq(p, 1, Len(p) - 1)

\* Path::file_name
FileName(p) == p[Len(p)]

\* The text of an absolute path: "/" before every component.
RECURSIVE PathStr(_)
PathStr(p) ==
    IF p = <<>> THEN <<>>
    ELSE PathStr(Parent(p)) \o <<"/">> \o FileName(p)

\* The text of a relative path: components joined by "/".
RelStr(p) == IF p = <<>> THEN <<>> ELSE Tail(PathStr(p))

\* Path::strip_prefix(root).unwrap_or(path), as text.
StripPrefix(p, root) ==
    IF Len(p) >= Len(root) /\ SubSeq(p, 1, Len(root)) = root
    THEN RelStr(SubSeq(p, Len(root) + 1, Len(p)))
    ELSE PathStr(p)

(***************************************************************************)
(* Glob patterns (globset::Glob::new with default options, then            *)
(* GlobSet::is_match): a pattern is parsed to tokens and matched against   *)
(* the whole text of the path; "*" and "?" also match "/".  The alphabet   *)
(* has no "]", "{" or "\", so a "[" always opens an unclosed class.        *)
(***************************************************************************)
IsSep(c) == c = "/"

Lit(c) == [t |-> "Literal", c |-> c]
TAny == [t |-> "Any", c |-> ""]
TZeroOrMore == [t |-> "ZeroOrMore", c |-> ""]
TRecursivePrefix == [t |-> "RecursivePrefix", c |-> ""]
TRecursiveSuffix == [t |-> "RecursiveSuffix", c |-> ""]
TRecursiveZeroOrMore == [t |-> "RecursiveZeroOrMore", c |-> ""]

DropLast(s) == SubSeq(s, 1, Len(s) - 1)

\* Parser::parse_star for the "**" case: pat[i] and pat[i+1] are both "*".
\* Returns the token list and the index of the next unread character.
ParseStarStar(pat, i, toks) ==
    LET prevSep == i > 1 /\ IsSep(pat[i - 1])
        n == i + 2
        peekNone == n > Len(pat)
        peekSep == ~peekNone /\ IsSep(pat[n])
    IN  IF toks = <<>>
        THEN IF ~peekNone /\ ~peekSep
             THEN [toks |-> <<TZeroOrMore, TZeroOrMore>>, next |-> n]
             ELSE [toks |-> <<TRecursivePrefix>>,
                   next |-> IF peekSep THEN n + 1 ELSE n]
        ELSE IF ~prevSep
        THEN [toks |-> toks \o <<TZeroOrMore, TZeroOrMore>>, next |-> n]
        ELSE IF ~peekNone /\ ~peekSep
        THEN [toks |-> toks \o <<TZeroOrMore, TZeroOrMore>>, next |-> n]
        ELSE LET last == toks[Len(toks)]
                 rest == DropLast(toks)
                 tok == IF last.t = "RecursivePrefix" THEN TRecursivePrefix
                        ELSE IF last.t = "RecursiveSuffix" THEN TRecursiveSuffix
                        ELSE IF peekNone THEN TRecursiveSuffix
                        ELSE TRecursiveZeroOrMore
             IN [toks |-> rest \o <<tok>>,
                 next |-> IF peekSep THEN n + 1 ELSE n]

\* Parser::parse: Ok(tokens) of a pattern, or Err for a malformed one.
RECURSIVE ParseGlob(_, _, _)
ParseGlob(pat, i, toks) ==
    IF i > Len(pat) THEN [ok |-> TRUE, toks |-> toks]
    ELSE LET c == pat[i] IN
         IF c = "[" THEN [ok |-> FALSE, toks |-> <<>>]
         ELSE IF c = "?" THEN ParseGlob(pat, i + 1, toks \o <<TAny>>)
         ELSE IF c = "*"
         THEN IF i < Len(pat) /\ pat[i + 1] = "*"
              THEN LET r == ParseStarStar(pat, i, toks)
                   IN ParseGlob(pat, r.next, r.toks)
              ELSE ParseGlob(pat, i + 1, toks \o <<TZeroOrMore>>)
         ELSE ParseGlob(pat, i + 1, toks \o <<Lit(c)>>)

\* Glob::new(pattern): Ok(tokens) or Err.
GlobNew(pat) == ParseGlob(pat, 1, <<>>)

\* The anchored regex of a token list, matched from token i and position j.
RECURSIVE TokMatch(_, _, _, _)
TokMatch(toks, i, s, j) ==
    IF i > Len(toks) THEN j = Len(s) + 1
    ELSE LET k == toks[i].t IN
         CASE k = "Literal" ->
                j <= Len(s) /\ s[j] = toks[i].c /\ TokMatch(toks, i + 1, s, j + 1)
           [] k = "Any" ->
                j <= Len(s) /\ TokMatch(toks, i + 1, s, j + 1)
           [] k = "ZeroOrMore" ->
                \E e \in j..(Len(s) + 1) : TokMatch(toks, i + 1, s, e)
           [] k = "RecursivePrefix" ->
                \/ TokMatch(toks, i + 1, s, j)
                \/ \E e \in j..Len(s) : s[e] = "/" /\ TokMatch(toks, i + 1, s, e + 1)
           [] k = "RecursiveSuffix" ->
                /\ j <= Len(s) /\ s[j] = "/"
                /\ \E e \in (j + 1)..(Len(s) + 1) : TokMatch(toks, i + 1, s, e)
           [] k = "RecursiveZeroOrMore" ->
                /\ j <= Len(s) /\ s[j] = "/"
                /\ \/ TokMatch(toks, i + 1, s, j + 1)
                   \/ \E e \in (j + 1)..Len(s) :
                         s[e] = "/" /\ TokMatch(toks, i + 1, s, e + 1)

\* The regex of a compiled glob against a text; a glob that is just "**"
\* matches everything.
TokensMatch(toks, s) == toks = <<TRecursivePrefix>> \/ TokMatch(toks, 1, s, 1)

\* One well-formed glob against the text of a path.
GlobMatch(pat, s) == GlobNew(pat).ok /\ TokensMatch(GlobNew(pat).toks, s)

\* PatternService::build_glob_set: Err when some pattern is malformed,
\* else the set of the compiled globs.
build_glob_set(patterns) ==
    IF \E i \in 1..Len(patterns) : ~GlobNew(patterns[i]).ok
    THEN [ok |-> FALSE, globs |-> <<>>]
    ELSE [ok |-> TRUE, globs |-> [i \in 1..Len(patterns) |-> GlobNew(patterns[i]).toks]]

\* GlobSet::is_match
is_match(set, s) == \E i \in 1..Len(set.globs) : TokensMatch(set.globs[i], s)

(***************************************************************************)
(* PatternService (patterns.rs).  A Result<bool> is [ok, val].             *)
(***************************************************************************)
Ok(v) == [ok |-> TRUE, val |-> v]
Err == [ok |-> FALSE, val |-> FALSE]

\* Mutant: an include match is answered at once, before the exclude and
\* gitignore lists are looked at.
should_include_file_IncludeWins(m, s) ==
    LET inc == build_glob_set(m.include_patterns)
        exc == build_glob_set(m.exclude_patterns)
        git == build_glob_set(m.gitignore_patterns)
    IN  IF m.include_patterns # <<>> /\ ~inc.ok THEN Err
        ELSE IF m.include_patterns # <<>>
        THEN Ok(is_match(inc, s))
        ELSE IF m.exclude_patterns # <<>> /\ ~exc.ok THEN Err
        ELSE IF m.exclude_patterns # <<>> /\ is_match(exc, s) THEN Ok(FALSE)
        ELSE IF m.gitignore_patterns # <<>> /\ ~git.ok THEN Err
        ELSE IF m.gitignore_patterns # <<>> /\ is_match(git, s) THEN Ok(FALSE)
        ELSE Ok(TRUE)

\* PatternService::should_include_file(matcher, path), s the text of path.
should_include_file(m, s) ==
    LET inc == build_glob_set(m.include_patterns)
        exc == build_glob_set(m.exclude_patterns)
        git == build_glob_set(m.gitignore_patterns)
    IN  IF m.include_patterns # <<>> /\ ~inc.ok THEN Err
        ELSE IF m.include_patterns # <<>> /\ ~is_match(inc, s) THEN Ok(FALSE)
        ELSE IF m.exclude_patterns # <<>> /\ ~exc.ok THEN Err
        ELSE IF m.exclude_patterns # <<>> /\ is_match(exc, s) THEN Ok(FALSE)
        ELSE IF m.gitignore_patterns # <<>> /\ ~git.ok THEN Err
        ELSE IF m.gitignore_patterns # <<>> /\ is_match(git, s) THEN Ok(FALSE)
        ELSE Ok(TRUE)

\* PatternService::should_include_directory(matcher, dir_path), s the text
\* of dir_path: only the exclude list is looked at, for s and for s + "/".
should_include_directory(m, s) ==
    LET exc == build_glob_set(m.exclude_patterns)
    IN  IF m.exclude_patterns # <<>> /\ ~exc.ok THEN Err
        ELSE IF m.exclude_patterns # <<>>
                /\ (is_match(exc, s) \/ is_match(exc, s \o <<"/">>))
        THEN Ok(FALSE)
        ELSE Ok(TRUE)

\* The extensions is_binary_file lists.
BinaryExtensions ==
    { <<"e","x","e">>, <<"d","l","l">>, <<"s","o">>, <<"d","y","l","i","b">>,
      <<"a">>, <<"l","i","b">>, <<"o">>, <<"o","b","j">>,
      <<"p","n","g">>, <<"j","p","g">>, <<"j","p","e","g">>, <<"g","i","f">>,
      <<"b","m","p">>, <<"i","c","o">>, <<"s","v","g">>,
      <<"p","d","f">>, <<"d","o","c">>, <<"d","o","c","x">>, <<"x","l","s">>,
      <<"x","l","s","x">>, <<"p","p","t">>, <<"p","p","t","x">>,
      <<"z","i","p">>, <<"t","a","r">>, <<"g","z">>, <<"b","z","2">>,
      <<"7","z">>, <<"r","a","r">>,
      <<"m","p","3">>, <<"m","p","4">>, <<"a","v","i">>, <<"m","o","v">>,
      <<"w","m","v">>, <<"f","l","v">> }

\* The positions of "." in a file name after its first character.
Dots(name) == {i \in 2..Len(name) : name[i] = "."}

\* Path::extension: the text after the last "." of the file name, if any
\* (a leading "." starts no extension).  [some, ext]
Extension(name) ==
    IF Dots(name) = {} THEN [some |-> FALSE, ext |-> <<>>]
    ELSE LET d == CHOOSE i \in Dots(name) : \A k \in Dots(name) : k <= i
         IN [some |-> TRUE, ext |-> SubSeq(name, d + 1, Len(name))]

\* char::to_lowercase on the characters of the model.
UpperCase ==
    <<"A", "B", "C", "D", "E", "F", "G", "H", "I", "J", "K", "L", "M",
      "N", "O", "P", "Q", "R", "S", "T", "U", "V", "W", "X", "Y", "Z">>
LowerCase ==
    <<"a", "b", "c", "d", "e", "f", "g", "h", "i", "j", "k", "l", "m",
      "n", "o", "p", "q", "r", "s", "t", "u", "v", "w", "x", "y", "z">>
ToLower(c) ==
    IF \E i \in 1..Len(UpperCase) : UpperCase[i] = c
    THEN LowerCase[CHOOSE i \in 1..Len(UpperCase) : UpperCase[i] = c]
    ELSE c

\* Mutant: the extension is compared as it is written.
is_binary_file_CaseSensitive(p) ==
    LET e == Extension(FileName(p))
    IN  e.some /\ e.ext \in BinaryExtensions

\* is_binary_file(path)
is_binary_file(p) ==
    LET e == Extension(FileName(p))
    IN  e.some /\ [i \in 1..Len(e.ext) |-> ToLower(e.ext[i])] \in BinaryExtensions

(***************************************************************************)
(* The scanned file tree.  The scan root is /r (its parent, the temporary  *)
(* directory of the run, is the path <<>>).                                *)
(***************************************************************************)
Root == << <<"r">> >>

P_b == Root \o << <<"b", ".", "r">> >>
P_s == Root \o << <<"s">> >>
P_m == P_s \o << <<"m", ".", "r">> >>
P_x == P_s \o << <<"x", ".", "o">> >>
P_t == Root \o << <<"t">> >>
P_o == P_t \o << <<"o", ".", "r">> >>

\* No symbolic link.
NoLinks == [x \in {} |-> <<>>]

\* kind and byte size of every entry below (and including) the root, the
\* directories whose listing fails (read_dir returns an error) and the
\* target of every symbolic link.
BaseFs ==
    [ kind |-> (Root :> "dir") @@ (P_b :> "file") @@ (P_s :> "dir") @@
               (P_m :> "file") @@ (P_x :> "file") @@ (P_t :> "dir") @@
               (P_o :> "file"),
      size |-> (Root :> 0) @@ (P_b :> 1) @@ (P_s :> 0) @@ (P_m :> 2) @@
               (P_x :> 2) @@ (P_t :> 0) @@ (P_o :> 3),
      noread |-> {},
      target |-> NoLinks ]

FileSystems == {BaseFs}

Entries(f) == DOMAIN f.kind
Files(f) == {p \in Entries(f) : f.kind[p] = "file"}
Dirs(f) == {p \in Entries(f) : f.kind[p] = "dir"}
ChildrenOf(f, d) == {p \in Entries(f) : p # Root /\ Parent(p) = d}

\* All orders in which a set can be listed.
RECURSIVE SeqsOf(_)
SeqsOf(S) ==
    IF S = {} THEN {<<>>}
    ELSE UNION { {<<x>> \o t : t \in SeqsOf(S \ {x})} : x \in S }

\* The orders in which the directories of f can list their entries.
ReadDirOrders(f) ==
    { r \in [Dirs(f) -> UNION {SeqsOf(ChildrenOf(f, d)) : d \in Dirs(f)}] :
        \A d \in Dirs(f) : r[d] \in SeqsOf(ChildrenOf(f, d)) }

\* The pattern lists a run is given.
IncludeLists == { <<>>, << <<"*", ".", "r">> >> }
ExcludeLists == { <<>>,
                  << <<"*", ".", "o">>, <<"*", "/", "s">> >>,
                  << <<"*", "*", "/", "t", "/", "*", "*">> >>,
                  << <<"[">> >> }
MoreIncludeLists == { << <<"s", "/", "*">>, <<"*", ".", "o">> >>,
                      << <<"*", "*", "/", "?", ".", "r">> >>,
                      << <<"*", ".", "r">>, <<"[">> >> }
MoreExcludeLists == { << <<"t", "/", "*", "*">> >>,
                      << <<"/", "r", "/", "*", "*", "/", "*", ".", "r">> >>,
                      << <<"/", "r", "/", "?">> >> }
MoreGitignoreLists == { << <<"*", "*", "/", "x", ".", "o">> >>,
                        << <<"*", "*", "/", "s", "/", "*", "*">> >>,
                        << <<"b", ".", "r">>, <<"*", "t", "*">> >> }

\* The sets of files whose metadata read fails during a run.
UnreadableChoices == { {}, {P_m} }

GitignoreLists == { <<>>, << <<"t", "/", "*", "*">>, <<"*", "/", "m", ".", "*">> >> }

(***************************************************************************)
(* File trees of whole runs.  ScenarioFs is a root with src/main.txt       *)
(* (10 bytes) and target/out.bin; LockedFs is BaseFs with a root that      *)
(* cannot be listed; GitFs(text) is BaseFs with a .gitignore of that text. *)
(***************************************************************************)
P_src == Root \o << <<"s", "r", "c">> >>
P_main == P_src \o << <<"m", "a", "i", "n", ".", "t", "x", "t">> >>
P_target == Root \o << <<"t", "a", "r", "g", "e", "t">> >>
P_out == P_target \o << <<"o", "u", "t", ".", "b", "i", "n">> >>
P_g == Root \o << <<".", "g", "i", "t", "i", "g", "n", "o", "r", "e">> >>

ScenarioFs ==
    [ kind |-> (Root :> "dir") @@ (P_src :> "dir") @@ (P_main :> "file") @@
               (P_target :> "dir") @@ (P_out :> "file"),
      size |-> (Root :> 0) @@ (P_src :> 0) @@ (P_main :> 10) @@
               (P_target :> 0) @@ (P_out :> 4),
      noread |-> {},
      target |-> NoLinks ]

LockedFs == [BaseFs EXCEPT !.noread = {Root}]

GitFs(text) ==
    [ kind |-> BaseFs.kind @@ (P_g :> "file"),
      size |-> BaseFs.size @@ (P_g :> Len(text)),
      noread |-> {},
      target |-> NoLinks ]

\* BaseFs with s/l, a symbolic link to the root.
P_l == P_s \o << <<"l">> >>
LinkFs ==
    [ kind |-> BaseFs.kind @@ (P_l :> "symlink"),
      size |-> BaseFs.size @@ (P_l :> 0),
      noread |-> {},
      target |-> (P_l :> Root) ]

\* The texts a .gitignore has in a run.
GitignoreTexts ==
    { <<"t", "/", "\n", "#", " ", "x", "\n", "\n", "!", "b", ".", "r", "\n", " ", " ", "*", ".", "o", " ", "\t", "\r", "\n">>,
      <<"[", "\n">>,
      <<" ", "#", "a", "\n", " ", "!", "m", "\n", "b", ".", "r">> }

\* Option<T>
Some(v) == [some |-> TRUE, val |-> v]
None == [some |-> FALSE, val |-> <<>>]

\* The pattern fields of the IngestRequest values a run is given
\* (models.rs 6-18).
Requests ==
    [ pattern : { None, Some(<<"t", "a", "r", "g", "e", "t", "/", "*", "*">>), Some(<<"[">>) },
      pattern_type : { "None", "Include", "Exclude" },
      include_patterns : { None, Some(<< <<"*", ".", "r">> >>) },
      exclude_patterns : { None, Some(<< <<"*", ".", "o">> >>) } ]

\* A request without patterns.
PlainRequest ==
    [ pattern |-> None, pattern_type |-> "None",
      include_patterns |-> None, exclude_patterns |-> None ]

NoFile == [exists |-> FALSE, text |-> <<>>]

(***************************************************************************)
(* PatternMatcher::default (models.rs 178-233).                            *)
(***************************************************************************)
default_exclude_patterns ==
    <<
      <<".", "g", "i", "t">>,
      <<".", "s", "v", "n">>,
      <<".", "h", "g">>,
      <<"t", "a", "r", "g", "e", "t", "/">>,
      <<"b", "u", "i", "l", "d", "/">>,
      <<"d", "i", "s", "t", "/">>,
      <<"n", "o", "d", "e", "_", "m", "o", "d", "u", "l", "e", "s", "/">>,
      <<"_", "_", "p", "y", "c", "a", "c", "h", "e", "_", "_", "/">>,
      <<"*", ".", "p", "y", "c">>,
      <<".", "v", "s", "c", "o", "d", "e", "/">>,
      <<".", "i", "d", "e", "a", "/">>,
      <<"*", ".", "s", "w", "p">>,
      <<"*", ".", "s", "w", "o">>,
      <<".", "D", "S", "_", "S", "t", "o", "r", "e">>,
      <<"*", ".", "l", "o", "g">>,
      <<"*", ".", "t", "m", "p">>,
      <<"*", ".", "t", "e", "m", "p">>,
      <<"*", ".", "e", "x", "e">>,
      <<"*", ".", "d", "l", "l">>,
      <<"*", ".", "s", "o">>,
      <<"*", ".", "d", "y", "l", "i", "b">>,
      <<"*", ".", "a">>,
      <<"*", ".", "l", "i", "b">>,
      <<"*", ".", "p", "n", "g">>,
      <<"*", ".", "j", "p", "g">>,
      <<"*", ".", "j", "p", "e", "g">>,
      <<"*", ".", "g", "i", "f">>,
      <<"*", ".", "p", "d", "f">>,
      <<"*", ".", "m", "p", "4">>,
      <<"*", ".", "m", "p", "3">>,
      <<"*", ".", "w", "a", "v">> >>

PatternMatcher_default ==
    [ include_patterns |-> <<>>,
      exclude_patterns |-> default_exclude_patterns,
      gitignore_patterns |-> <<>> ]

(***************************************************************************)
(* .gitignore (patterns.rs 84-135).                                        *)
(***************************************************************************)
\* char::is_whitespace on the characters of the model.
WhiteSpace == {" ", "\t", "\r"}

\* str::trim
RECURSIVE TrimStart(_)
TrimStart(s) ==
    IF s # <<>> /\ Head(s) \in WhiteSpace THEN TrimStart(Tail(s)) ELSE s
RECURSIVE TrimEnd(_)
TrimEnd(s) ==
    IF s # <<>> /\ s[Len(s)] \in WhiteSpace THEN TrimEnd(DropLast(s)) ELSE s
Trim(s) == TrimEnd(TrimStart(s))

\* str::lines: the text is cut at every "\n", a "\r" before it goes with
\* it, and the last line needs no "\n".
RECURSIVE Lines(_, _)
Lines(text, line) ==
    IF text = <<>> THEN (IF line = <<>> THEN <<>> ELSE <<line>>)
    ELSE IF Head(text) = "\n"
    THEN <<IF line # <<>> /\ line[Len(line)] = "\r" THEN DropLast(line) ELSE line>>
         \o Lines(Tail(text), <<>>)
    ELSE Lines(Tail(text), Append(line, Head(text)))

\* normalize_pattern(pattern); the alphabet has no "\".
normalize_pattern(pattern) ==
    IF pattern # <<>> /\ pattern[Len(pattern)] = "/"
    THEN pattern \o <<"*", "*">>
    ELSE pattern

\* Mutant: a negation line is kept as a pattern.
RECURSIVE parse_lines_KeepNegations(_, _)
parse_lines_KeepNegations(lines, patterns) ==
    IF lines = <<>> THEN patterns
    ELSE LET line == Trim(Head(lines))
         IN  IF line = <<>> \/ Head(line) = "#"
             THEN parse_lines_KeepNegations(Tail(lines), patterns)
             ELSE parse_lines_KeepNegations(Tail(lines), Append(patterns, line))
parse_gitignore_KeepNegations(file, readable) ==
    IF ~readable THEN [ok |-> FALSE, patterns |-> <<>>]
    ELSE [ok |-> TRUE, patterns |-> parse_lines_KeepNegations(Lines(file.text, <<>>), <<>>)]

\* The loop of parse_gitignore over the lines of the file.
RECURSIVE parse_lines(_, _)
parse_lines(lines, patterns) ==
    IF lines = <<>> THEN patterns
    ELSE LET line == Trim(Head(lines))
         IN  IF line = <<>> \/ Head(line) = "#"
             THEN parse_lines(Tail(lines), patterns)
             ELSE IF Head(line) = "!"
             THEN parse_lines(Tail(lines), patterns)
             ELSE parse_lines(Tail(lines), Append(patterns, line))

\* PatternService::parse_gitignore(gitignore_path): [ok, patterns]; Err when
\* read_to_string fails.
parse_gitignore(file, readable) ==
    IF ~readable THEN [ok |-> FALSE, patterns |-> <<>>]
    ELSE [ok |-> TRUE, patterns |-> parse_lines(Lines(file.text, <<>>), <<>>)]

\* PatternService::add_gitignore_patterns(matcher, gitignore_path):
\* [ok, matcher].
add_gitignore_patterns(m, file, readable) ==
    IF file.exists
    THEN LET r == parse_gitignore(file, readable)
         IN  IF r.ok
             THEN [ok |-> TRUE,
                   matcher |-> [m EXCEPT !.gitignore_patterns = @ \o r.patterns]]
             ELSE [ok |-> FALSE, matcher |-> m]
    ELSE [ok |-> TRUE, matcher |-> m]

\* A root with files of 1, 100000 and 100001 bytes.
P_e == Root \o << <<"e", ".", "r">> >>
P_h == Root \o << <<"h", ".", "r">> >>
BigFs ==
    [ kind |-> (Root :> "dir") @@ (P_b :> "file") @@ (P_e :> "file") @@
               (P_h :> "file"),
      size |-> (Root :> 0) @@ (P_b :> 1) @@ (P_e :> 100000) @@ (P_h :> 100001),
      noread |-> {},
      target |-> NoLinks ]

\* File names with and without an extension, in lower and upper case.
ProbeNames ==
    { <<"a", ".", "o">>,
      <<"a", ".", "O">>,
      <<"b", ".", "o">>,
      <<"a", ".", "p", "n", "g">>,
      <<"a", ".", "P", "N", "G">>,
      <<"b", ".", "P", "n", "g">>,
      <<"a", ".", "r">>,
      <<"a", ".", "R">>,
      <<"a">>,
      <<"o">>,
      <<".", "o">>,
      <<"a", ".", "b", ".", "o">>,
      <<"a", ".", "o", ".", "r">>,
      <<"a", ".">> }

\* A root with two files of one byte.
PairFs(a, b) ==
    [ kind |-> (Root :> "dir") @@ (Root \o <<a>> :> "file") @@ (Root \o <<b>> :> "file"),
      size |-> (Root :> 0) @@ (Root \o <<a>> :> 1) @@ (Root \o <<b>> :> 1),
      noread |-> {},
      target |-> NoLinks ]

\* A matcher without patterns.
EmptyMatcher ==
    [ include_patterns |-> <<>>, exclude_patterns |-> <<>>, gitignore_patterns |-> <<>> ]

VARIABLES
    fs,                 \* the file tree under the root
    readdir,            \* directory -> its entries in listing order
    unreadable,         \* files whose metadata read fails
    matcher,            \* PatternMatcher
    max_file_size, max_files, max_depth, concurrent_limit, batch_size,
    pc,                 \* position of scan_directory_lazy and its caller
    all_files,          \* Vec<PathBuf>
    file_map,           \* HashMap<PathBuf, Vec<PathBuf>>
    file_nodes,         \* HashMap<PathBuf, FileNodeLazy>
    chunk_start,        \* index in all_files of the current chunk's first file
    task,               \* index in all_files -> state of its future
    result,             \* index in all_files -> Result<FileNodeLazy> of a finished future
    permits,            \* free permits of the semaphore
    tree,               \* the FileNodeLazy the scan returns
    tree_text,          \* the rendered tree
    reordered,          \* history: some fetch ended before one spawned earlier
    request,            \* IngestRequest: the pattern fields
    gitignore_file,     \* the text of <root>/.gitignore, if the file exists
    content_unreadable, \* files whose read_to_string fails
    sink_ok,            \* the scratch file can be created and written
    readback_ok,        \* the scratch file can be read back
    files_analyzed,     \* ProcessingStats.files_analyzed
    total_size_bytes,   \* ProcessingStats.total_size_bytes
    scratch,            \* the text of <root>/temp_content.txt, if the file exists
    content,            \* IngestResponse.content
    status              \* the outcome of process_repository

\* What a run is given; the matcher is built before the scan and never
\* changed by it.
inputs == <<fs, readdir, unreadable, matcher, max_file_size, max_files,
            max_depth, concurrent_limit, batch_size,
            request, gitignore_file, content_unreadable, sink_ok, readback_ok>>
\* What process_repository computes after the scan.
outputs == <<files_analyzed, total_size_bytes, scratch, content, status>>
vars == <<fs, readdir, unreadable, matcher, max_file_size, max_files,
          max_depth, concurrent_limit, batch_size, pc, all_files, file_map,
          file_nodes, chunk_start, task, result, permits, tree, tree_text, reordered,
          request, gitignore_file, content_unreadable, sink_ok, readback_ok,
          files_analyzed, total_size_bytes, scratch, content, status>>

\* The entry a path leads to: the target of a symbolic link, else itself.
Resolve(p) == IF fs.kind[p] = "symlink" THEN fs.target[p] ELSE p

\* Path::is_file and Path::is_dir follow symbolic links.
is_file(p) == p \in DOMAIN fs.kind /\ fs.kind[Resolve(p)] = "file"
is_dir(p) == p \in DOMAIN fs.kind /\ fs.kind[Resolve(p)] = "dir"

(***************************************************************************)
(* Path discovery (files.rs 374-398).                                      *)
(***************************************************************************)
\* WalkDir::new(path).max_depth(d): the entries in pre-order, a directory
\* before its entries, nothing deeper than d.  The error WalkDir yields for
\* a directory it cannot list is dropped by filter_map(|entry| entry.ok()).
\* A symbolic link is yielded and not followed.
RECURSIVE WalkFrom(_, _)
RECURSIVE WalkAll(_, _)
\* Mutant: the entries of a directory at the depth bound are walked too.
WalkFrom_OneDeeper(p, depth) ==
    <<p>> \o (IF fs.kind[p] = "dir" /\ depth <= max_depth /\ p \notin fs.noread
              THEN WalkAll(readdir[p], depth + 1)
              ELSE <<>>)
WalkFrom(p, depth) ==
    <<p>> \o (IF fs.kind[p] = "dir" /\ depth < max_depth /\ p \notin fs.noread
              THEN WalkAll(readdir[p], depth + 1)
              ELSE <<>>)
WalkAll(ps, depth) ==
    IF ps = <<>> THEN <<>>
    ELSE WalkFrom(Head(ps), depth) \o WalkAll(Tail(ps), depth)

\* .take(max_files)
Take(sq, n) == SubSeq(sq, 1, IF n < Len(sq) THEN n ELSE Len(sq))

AllPaths == Take(WalkFrom(Root, 0), max_files)

\* all_files: the walked paths that are files, in walk order.
AllFilesOf(paths) == SelectSeq(paths, is_file)

\* Mutant: a path two or more levels below the root is registered under
\* its grandparent.
Push_Grandparent(map, parent, p) ==
    LET key == IF Len(parent) > 1 THEN Parent(parent) ELSE parent
    IN  IF key \in DOMAIN map
        THEN [map EXCEPT ![key] = Append(@, p)]
        ELSE map @@ (key :> <<p>>)

\* file_map.entry(parent).or_insert_with(Vec::new).push(path_buf)
Push(map, parent, p) ==
    IF parent \in DOMAIN map
    THEN [map EXCEPT ![parent] = Append(@, p)]
    ELSE map @@ (parent :> <<p>>)

\* The adjacency map of a list of walked paths.
RECURSIVE FileMapOf(_, _)
FileMapOf(paths, map) ==
    IF paths = <<>> THEN map
    ELSE FileMapOf(Tail(paths), Push(map, Parent(Head(paths)), Head(paths)))

EmptyMap == [x \in {} |-> <<>>]

(***************************************************************************)
(* Metadata fetch of one file (files.rs 442-478).                          *)
(***************************************************************************)
FileNodeLazy(name, path, rel, type, size, has_content, children) ==
    [ name |-> name, path |-> path, relative_path |-> rel, node_type |-> type,
      size |-> size, has_content |-> has_content, children |-> children,
      depth |-> 0 ]

NoNode == FileNodeLazy(<<>>, <<>>, <<>>, "None", 0, FALSE, <<>>)

\* Mutant: a file of exactly max_file_size bytes has no content.
process_file_lazy_StrictSize(file_path) ==
    IF file_path \in unreadable THEN [ok |-> FALSE, node |-> NoNode]
    ELSE LET len == fs.size[Resolve(file_path)]
             inc == should_include_file(matcher, PathStr(file_path))
         IN  IF len < max_file_size /\ ~inc.ok
             THEN [ok |-> FALSE, node |-> NoNode]
             ELSE [ok |-> TRUE,
                   node |-> FileNodeLazy(
                       FileName(file_path), file_path,
                       StripPrefix(file_path, Root), "File", len,
                       len < max_file_size /\ inc.val /\ ~is_binary_file(file_path),
                       <<>>)]

\* process_file_lazy(file_path, root_path, matcher, max_file_size):
\* [ok, node].  fs::metadata fails for an unreadable file; a pattern error
\* of should_include_file is returned by `?` (only when the size test passed).
process_file_lazy(file_path) ==
    IF file_path \in unreadable THEN [ok |-> FALSE, node |-> NoNode]
    ELSE LET len == fs.size[Resolve(file_path)]
             inc == should_include_file(matcher, PathStr(file_path))
         IN  IF len <= max_file_size /\ ~inc.ok
             THEN [ok |-> FALSE, node |-> NoNode]
             ELSE [ok |-> TRUE,
                   node |-> FileNodeLazy(
                       FileName(file_path), file_path,
                       StripPrefix(file_path, Root), "File", len,
                       len <= max_file_size /\ inc.val /\ ~is_binary_file(file_path),
                       <<>>)]

(***************************************************************************)
(* Tree builder (files.rs 481-543).                                        *)
(***************************************************************************)
\* The comparator of children.sort_by: "Less", "Equal" or "Greater".
NameCmp(a, b) ==
    IF StrLess(a.name, b.name) THEN "Less"
    ELSE IF StrLess(b.name, a.name) THEN "Greater"
    ELSE "Equal"

\* Mutant: the comparator looks at the names only.
compare_children_ByName(a, b) == NameCmp(a, b)

compare_children(a, b) ==
    IF a.node_type = "Directory" /\ b.node_type = "File" THEN "Less"
    ELSE IF a.node_type = "File" /\ b.node_type = "Directory" THEN "Greater"
    ELSE NameCmp(a, b)

\* Stable insertion of x into a sorted list: before the first greater element.
RECURSIVE SortedInsert(_, _)
SortedInsert(sorted, x) ==
    IF sorted = <<>> THEN <<x>>
    ELSE IF compare_children(x, Head(sorted)) = "Less"
    THEN <<x>> \o sorted
    ELSE <<Head(sorted)>> \o SortedInsert(Tail(sorted), x)

\* Mutant: the children are left in the order they were gathered.
sort_children_None(children) == children

\* children.sort_by(...): a stable sort.
RECURSIVE sort_children(_)
sort_children(children) ==
    IF children = <<>> THEN <<>>
    ELSE SortedInsert(sort_children(DropLast(children)), children[Len(children)])

\* The elements of a hash set in the iteration order ord gives them.
RECURSIVE IterOrder(_, _)
IterOrder(S, ord) ==
    IF S = {} THEN <<>>
    ELSE LET x == CHOOSE x \in S : \A y \in S : ord[x] <= ord[y]
         IN <<x>> \o IterOrder(S \ {x}, ord)

\* The file children of a directory: its adjacency entries that are files
\* and have a node in the metadata map, in adjacency order.
RECURSIVE FileChildren(_, _)
FileChildren(child_paths, nodes) ==
    IF child_paths = <<>> THEN <<>>
    ELSE (IF is_file(Head(child_paths)) /\ Head(child_paths) \in DOMAIN nodes
          THEN <<nodes[Head(child_paths)]>>
          ELSE <<>>) \o FileChildren(Tail(child_paths), nodes)

\* The HashSet `subdirectories` of a directory.
Subdirectories(current_path, map) ==
    LET child_paths == IF current_path \in DOMAIN map THEN map[current_path] ELSE <<>>
    IN  {child_paths[i] : i \in {k \in 1..Len(child_paths) : is_dir(child_paths[k])}}
        \cup {d \in DOMAIN map : d # <<>> /\ Parent(d) = current_path /\ is_dir(d)}

\* build_lazy_directory_tree(current_path, file_nodes, file_map); ord is the
\* iteration order of the hash set of subdirectories.
RECURSIVE build_lazy_directory_tree(_, _, _, _)
RECURSIVE BuildAll(_, _, _, _)
build_lazy_directory_tree(current_path, nodes, map, ord) ==
    LET child_paths == IF current_path \in DOMAIN map THEN map[current_path] ELSE <<>>
        subdirs == IterOrder(Subdirectories(current_path, map), ord)
        children == FileChildren(child_paths, nodes) \o BuildAll(subdirs, nodes, map, ord)
    IN  FileNodeLazy(FileName(current_path), current_path, <<>>, "Directory",
                     0, FALSE, sort_children(children))
BuildAll(subdirs, nodes, map, ord) ==
    IF subdirs = <<>> THEN <<>>
    ELSE <<build_lazy_directory_tree(Head(subdirs), nodes, map, ord)>>
         \o BuildAll(Tail(subdirs), nodes, map, ord)

\* The iteration orders a hash set of directories can have.
\* (the root is in no set of subdirectories).
SubDirs == {p \in Entries(fs) : is_dir(p)} \ {Root}
HashOrders == { o \in [SubDirs -> 1..Cardinality(SubDirs)] :
                  \A a, b \in SubDirs : a # b => o[a] # o[b] }

(***************************************************************************)
(* Tree renderer (files.rs 551-573).  The text is a sequence of            *)
(* characters; the box-drawing characters are written in ASCII:            *)
(* "L" for the corner, "+" for the tee, "-" for the dash, "|" for the bar. *)
(***************************************************************************)
ConnectorLast == <<"L", "-", "-", " ">>
ConnectorMid == <<"+", "-", "-", " ">>
PrefixLast == <<" ", " ", " ", " ">>
PrefixMid == <<"|", " ", " ", " ">>

RECURSIVE generate_tree_string_lazy(_, _, _)
RECURSIVE RenderChildren(_, _, _)
\* Mutant: no child is rendered as the last one.
RenderChildren_NoLast(children, i, new_prefix) ==
    IF i > Len(children) THEN <<>>
    ELSE generate_tree_string_lazy(children[i], new_prefix, FALSE)
         \o RenderChildren(children, i + 1, new_prefix)
generate_tree_string_lazy(node, prefix, is_last) ==
    LET connector == IF is_last THEN ConnectorLast ELSE ConnectorMid
        name_display ==
            IF node.node_type = "Directory" THEN node.name \o <<"/">>
            ELSE IF node.node_type = "Symlink" THEN node.name \o <<" ", "-", ">", " ", "?">>
            ELSE node.name
        new_prefix == prefix \o (IF is_last THEN PrefixLast ELSE PrefixMid)
    IN  prefix \o connector \o name_display \o <<"\n">>
        \o (IF node.node_type = "Directory"
            THEN RenderChildren(node.children, 1, new_prefix)
            ELSE <<>>)
RenderChildren(children, i, new_prefix) ==
    IF i > Len(children) THEN <<>>
    ELSE generate_tree_string_lazy(children[i], new_prefix, i = Len(children))
         \o RenderChildren(children, i + 1, new_prefix)

(***************************************************************************)
(* scan_directory_lazy (files.rs 362-440) and its caller (services.rs).    *)
(***************************************************************************)
EmptyNodes == [x \in {} |-> NoNode]
NoTasks == [x \in {} |-> "waiting"]
NoResults == [x \in {} |-> [ok |-> FALSE, node |-> NoNode]]

Min(a, b) == IF a < b THEN a ELSE b

\* The indices in all_files of the chunk that starts at `start`
\* (all_files.chunks(batch_size)).
ChunkOf(start) == start..Min(start + batch_size - 1, Len(all_files))

\* Mutant: the first failed fetch of a batch ends the merge of the batch.
RECURSIVE MergeResults_StopAtErr(_, _, _)
MergeResults_StopAtErr(nodes, i, last) ==
    IF i > last THEN nodes
    ELSE IF result[i].ok
    THEN MergeResults_StopAtErr(
            [x \in DOMAIN nodes \cup {all_files[i]} |->
                IF x = all_files[i] THEN result[i].node ELSE nodes[x]],
            i + 1, last)
    ELSE nodes

\* for (file_path, result) in batch_results { if let Ok(node) = result
\*     { file_nodes.insert(file_path, node); } }  from index i on.
RECURSIVE MergeResults(_, _, _)
MergeResults(nodes, i, last) ==
    IF i > last THEN nodes
    ELSE MergeResults(
            IF result[i].ok
            THEN [x \in DOMAIN nodes \cup {all_files[i]} |->
                    IF x = all_files[i] THEN result[i].node ELSE nodes[x]]
            ELSE nodes,
            i + 1, last)

\* The variables of the scan before it starts.
ScanFresh ==
    /\ all_files = <<>>
    /\ file_map = EmptyMap
    /\ file_nodes = EmptyNodes
    /\ chunk_start = 1
    /\ task = NoTasks
    /\ result = NoResults
    /\ permits = 0
    /\ tree = NoNode
    /\ tree_text = <<>>
    /\ reordered = FALSE

\* The variables of process_repository before it computes them.
NoOutputs ==
    /\ files_analyzed = 0
    /\ total_size_bytes = 0
    /\ scratch = NoFile
    /\ content = <<>>
    /\ status = "Running"

\* The state before scan_directory_lazy starts, for a scan on its own.
Start ==
    /\ pc = "walk"
    /\ request = PlainRequest
    /\ gitignore_file = NoFile
    /\ content_unreadable = {}
    /\ sink_ok = TRUE
    /\ readback_ok = TRUE
    /\ ScanFresh
    /\ NoOutputs

Init ==
    /\ fs \in FileSystems
    /\ readdir \in ReadDirOrders(fs)
    /\ unreadable \in UnreadableChoices
    /\ matcher \in [ include_patterns : IncludeLists,
                     exclude_patterns : ExcludeLists,
                     gitignore_patterns : GitignoreLists ]
    /\ max_file_size = 2
    /\ max_files \in {0, 1, MaxFilesBound, Cardinality(Entries(fs))}
    /\ max_depth \in 0..MaxDepthBound
    /\ concurrent_limit \in 1..MaxLimitBound
    /\ batch_size \in 1..MaxBatchBound
    /\ Start

\* Runs over a wider range of matchers, with the limits of the scan fixed.
InitPatterns ==
    /\ fs \in FileSystems
    /\ readdir = CHOOSE r \in ReadDirOrders(fs) : TRUE
    /\ unreadable = {}
    /\ matcher \in [ include_patterns : IncludeLists \cup MoreIncludeLists,
                     exclude_patterns : ExcludeLists \cup MoreExcludeLists,
                     gitignore_patterns : GitignoreLists \cup MoreGitignoreLists ]
    /\ max_file_size = 2
    /\ max_files = Cardinality(Entries(fs))
    /\ max_depth = MaxDepthBound
    /\ concurrent_limit = 1
    /\ batch_size = MaxBatchBound
    /\ Start

\* Lines 374-405: the walk, the adjacency map, the semaphore.
Walk ==
    /\ pc = "walk"
    /\ all_files' = AllFilesOf(AllPaths)
    /\ file_map' = FileMapOf(AllPaths, EmptyMap)
    /\ file_nodes' = EmptyNodes
    /\ permits' = concurrent_limit
    /\ chunk_start' = 1
    /\ pc' = "chunks"
    /\ UNCHANGED <<inputs, outputs, task, result, tree, tree_text, reordered>>

\* Mutant: the futures of all remaining files are created at once.
SpawnBatch_All ==
    /\ pc = "chunks"
    /\ batch_size > 0
    /\ chunk_start <= Len(all_files)
    /\ task' = [i \in chunk_start..Len(all_files) |-> "waiting"]
    /\ result' = NoResults
    /\ pc' = "join"
    /\ UNCHANGED <<inputs, outputs, all_files, file_map, file_nodes, chunk_start,
                   permits, tree, tree_text, reordered>>

\* Line 407: all_files.chunks(0) panics (chunk size must be non-zero).
ChunksPanic ==
    /\ pc = "chunks"
    /\ batch_size = 0
    /\ pc' = "panicked"
    /\ UNCHANGED <<inputs, outputs, all_files, file_map, file_nodes, chunk_start,
                   task, result, permits, tree, tree_text, reordered>>

\* Lines 407-425: the futures of the next chunk are created.
SpawnBatch ==
    /\ pc = "chunks"
    /\ batch_size > 0
    /\ chunk_start <= Len(all_files)
    /\ task' = [i \in ChunkOf(chunk_start) |-> "waiting"]
    /\ result' = NoResults
    /\ pc' = "join"
    /\ UNCHANGED <<inputs, outputs, all_files, file_map, file_nodes, chunk_start,
                   permits, tree, tree_text, reordered>>

\* Mutant: a future starts its fetch without waiting for a permit.
Acquire_NoGate(i) ==
    /\ pc = "join"
    /\ task[i] = "waiting"
    /\ permits' = permits - 1
    /\ task' = [task EXCEPT ![i] = "running"]
    /\ UNCHANGED <<inputs, outputs, pc, all_files, file_map, file_nodes, chunk_start,
                   result, tree, tree_text, reordered>>

\* Line 415: a future gets a permit of the semaphore.
Acquire(i) ==
    /\ pc = "join"
    /\ task[i] = "waiting"
    /\ permits > 0
    /\ permits' = permits - 1
    /\ task' = [task EXCEPT ![i] = "running"]
    /\ UNCHANGED <<inputs, outputs, pc, all_files, file_map, file_nodes, chunk_start,
                   result, tree, tree_text, reordered>>

\* Mutant: the permit is returned only after a successful fetch.
Finish_LeakOnError(i) ==
    /\ pc = "join"
    /\ task[i] = "running"
    /\ result' = [x \in DOMAIN result \cup {i} |->
                    IF x = i THEN process_file_lazy(all_files[i]) ELSE result[x]]
    /\ task' = [task EXCEPT ![i] = "done"]
    /\ permits' = IF process_file_lazy(all_files[i]).ok THEN permits + 1 ELSE permits
    /\ reordered' = (reordered \/ \E k \in DOMAIN task : k < i /\ task[k] # "done")
    /\ UNCHANGED <<inputs, outputs, pc, all_files, file_map, file_nodes, chunk_start,
                   tree, tree_text>>

\* Mutant: a result is stored at the position of its completion in the
\* batch, not at the position of its file.
Finish_ByCompletion(i) ==
    /\ pc = "join"
    /\ task[i] = "running"
    /\ result' = LET slot == chunk_start + Cardinality(DOMAIN result)
                 IN [x \in DOMAIN result \cup {slot} |->
                       IF x = slot THEN process_file_lazy(all_files[i]) ELSE result[x]]
    /\ task' = [task EXCEPT ![i] = "done"]
    /\ permits' = permits + 1
    /\ reordered' = (reordered \/ \E k \in DOMAIN task : k < i /\ task[k] # "done")
    /\ UNCHANGED <<inputs, outputs, pc, all_files, file_map, file_nodes, chunk_start,
                   tree, tree_text>>

\* Lines 416-423: the fetch of a future ends, with Ok or Err; its permit
\* is dropped with the future's block.
Finish(i) ==
    /\ pc = "join"
    /\ task[i] = "running"
    /\ result' = [x \in DOMAIN result \cup {i} |->
                    IF x = i THEN process_file_lazy(all_files[i]) ELSE result[x]]
    /\ task' = [task EXCEPT ![i] = "done"]
    /\ permits' = permits + 1
    /\ reordered' = (reordered \/ \E k \in DOMAIN task : k < i /\ task[k] # "done")
    /\ UNCHANGED <<inputs, outputs, pc, all_files, file_map, file_nodes, chunk_start,
                   tree, tree_text>>

\* Lines 427-432: join_all returns, the results are merged.
JoinBatch ==
    /\ pc = "join"
    /\ \A i \in DOMAIN task : task[i] = "done"
    /\ file_nodes' = MergeResults(file_nodes, chunk_start,
                                  Min(chunk_start + batch_size - 1, Len(all_files)))
    /\ chunk_start' = chunk_start + batch_size
    /\ task' = NoTasks
    /\ result' = NoResults
    /\ pc' = "chunks"
    /\ UNCHANGED <<inputs, outputs, all_files, file_map, permits, tree, tree_text, reordered>>

\* Line 439: the tree is built and the scan returns.
Build ==
    /\ pc = "chunks"
    /\ batch_size > 0
    /\ chunk_start > Len(all_files)
    /\ \E ord \in HashOrders :
          tree' = build_lazy_directory_tree(Root, file_nodes, file_map, ord)
    /\ pc' = "scanned"
    /\ UNCHANGED <<inputs, outputs, all_files, file_map, file_nodes, chunk_start, task,
                   result, permits, tree_text, reordered>>

\* services.rs 85: the tree is rendered.
Render ==
    /\ pc = "scanned"
    /\ tree_text' = generate_tree_string_lazy(tree, <<>>, TRUE)
    /\ pc' = "rendered"
    /\ UNCHANGED <<inputs, outputs, all_files, file_map, file_nodes, chunk_start, task,
                   result, permits, tree, reordered>>

(***************************************************************************)
(* Statistics and content (services.rs 170-188, models.rs 102-127,         *)
(* files.rs 545-549).                                                      *)
(***************************************************************************)
RECURSIVE count_files_lazy(_)
RECURSIVE CountChildren(_, _)
\* Mutant: only the files with content are counted.
count_files_lazy_ContentOnly(node) ==
    IF node.node_type = "File" THEN (IF node.has_content THEN 1 ELSE 0)
    ELSE IF node.node_type = "Directory" THEN CountChildren(node.children, 1)
    ELSE 0
count_files_lazy(node) ==
    IF node.node_type = "File" THEN 1
    ELSE IF node.node_type = "Directory" THEN CountChildren(node.children, 1)
    ELSE 0
CountChildren(children, i) ==
    IF i > Len(children) THEN 0
    ELSE count_files_lazy(children[i]) + CountChildren(children, i + 1)

RECURSIVE calculate_total_size_lazy(_)
RECURSIVE SizeChildren(_, _)
calculate_total_size_lazy(node) ==
    IF node.node_type = "File" THEN node.size
    ELSE IF node.node_type = "Directory" THEN SizeChildren(node.children, 1)
    ELSE 0
SizeChildren(children, i) ==
    IF i > Len(children) THEN 0
    ELSE calculate_total_size_lazy(children[i]) + SizeChildren(children, i + 1)

\* The text of a file of the file tree: as many characters as its size.
FileText(p) ==
    IF p = P_g THEN gitignore_file.text
    ELSE [i \in 1..fs.size[p] |-> FileName(p)[1]]

\* std::fs::read_to_string(path): [ok, text]
read_to_string(p) ==
    IF p \in content_unreadable THEN [ok |-> FALSE, text |-> <<>>]
    ELSE [ok |-> TRUE, text |-> FileText(p)]

\* "=".repeat(48)
SeparatorWidth == 48
Separator == [i \in 1..SeparatorWidth |-> "="]

\* The size above which a body is replaced by a notice.
LargeFileBytes == 100000

\* format!("{}", n) of an unsigned integer.
Digits == <<"0", "1", "2", "3", "4", "5", "6", "7", "8", "9">>
RECURSIVE Decimal(_)
Decimal(n) ==
    IF n < 10 THEN <<Digits[n + 1]>>
    ELSE Decimal(n \div 10) \o <<Digits[(n % 10) + 1]>>

TruncatedHead == <<"[", "L", "a", "r", "g", "e", " ", "f", "i", "l", "e", " ", "c", "o", "n", "t", "e", "n", "t", " ", "t", "r", "u", "n", "c", "a", "t", "e", "d", " ", "-", " ">>
TruncatedTail == <<" ", "b", "y", "t", "e", "s", "]">>
ReadErrorText == <<"[", "E", "r", "r", "o", "r", " ", "r", "e", "a", "d", "i", "n", "g", " ", "f", "i", "l", "e", " ", "c", "o", "n", "t", "e", "n", "t", "]">>

\* Mutant: a file of exactly 100000 bytes gets the notice.
Body_AtThreshold(node) ==
    IF node.size >= LargeFileBytes
    THEN TruncatedHead \o Decimal(node.size) \o TruncatedTail \o <<"\n", "\n">>
    ELSE IF read_to_string(node.path).ok
    THEN read_to_string(node.path).text \o <<"\n", "\n">>
    ELSE ReadErrorText \o <<"\n", "\n">>

\* The three bodies of a section.
Body(node) ==
    IF node.size > LargeFileBytes
    THEN TruncatedHead \o Decimal(node.size) \o TruncatedTail \o <<"\n", "\n">>
    ELSE IF read_to_string(node.path).ok
    THEN read_to_string(node.path).text \o <<"\n", "\n">>
    ELSE ReadErrorText \o <<"\n", "\n">>

\* Mutant: a section is written for every File node.
RECURSIVE write_content_AllFiles(_)
RECURSIVE WriteChildren_AllFiles(_, _)
write_content_AllFiles(node) ==
    IF node.node_type = "File"
    THEN node.relative_path \o <<":", "\n">> \o Separator \o <<"\n">> \o Body(node)
    ELSE IF node.node_type = "Directory"
    THEN WriteChildren_AllFiles(node.children, 1)
    ELSE <<>>
WriteChildren_AllFiles(children, i) ==
    IF i > Len(children) THEN <<>>
    ELSE write_content_AllFiles(children[i]) \o WriteChildren_AllFiles(children, i + 1)

\* ContentWriter::write_content(node, writer): the text written.
RECURSIVE write_content(_)
RECURSIVE WriteChildren(_, _)
write_content(node) ==
    IF node.node_type = "File" /\ node.has_content
    THEN node.relative_path \o <<":", "\n">> \o Separator \o <<"\n">> \o Body(node)
    ELSE IF node.node_type = "Directory"
    THEN WriteChildren(node.children, 1)
    ELSE <<>>
WriteChildren(children, i) ==
    IF i > Len(children) THEN <<>>
    ELSE write_content(children[i]) \o WriteChildren(children, i + 1)

ReadBackErrorText == <<"E", "r", "r", "o", "r", " ", "r", "e", "a", "d", "i", "n", "g", " ", "g", "e", "n", "e", "r", "a", "t", "e", "d", " ", "c", "o", "n", "t", "e", "n", "t">>

\* Mutant: a file that cannot be read makes the write fail.
write_content_to_file_FailOnReadError(node) ==
    IF sink_ok /\ ~\E q \in content_unreadable :
                      q \in DOMAIN file_nodes /\ file_nodes[q].has_content
    THEN [ok |-> TRUE, file |-> [exists |-> TRUE, text |-> write_content(node)]]
    ELSE [ok |-> FALSE, file |-> NoFile]

\* local_path.join("temp_content.txt")
P_scratch == Root \o << <<"t", "e", "m", "p", "_", "c", "o", "n", "t", "e", "n", "t", ".", "t", "x", "t">> >>

\* FileService::write_content_to_file(node, output_path): [ok, file]; Err
\* when the file cannot be created or written.
write_content_to_file(node) ==
    IF sink_ok
    THEN [ok |-> TRUE, file |-> [exists |-> TRUE, text |-> write_content(node)]]
    ELSE [ok |-> FALSE, file |-> NoFile]

(***************************************************************************)
(* process_repository (services.rs 45-148) around the scan.                *)
(***************************************************************************)
given == <<fs, readdir, unreadable, max_file_size, max_files, max_depth,
           concurrent_limit, batch_size, request, gitignore_file,
           content_unreadable, sink_ok, readback_ok>>
scan_state == <<all_files, file_map, file_nodes, chunk_start, task, result,
                permits, tree, tree_text, reordered>>

\* Lines 49-58: the pattern of the request goes to one list of the matcher.
ApplyRequest ==
    /\ pc = "request"
    /\ matcher' =
         IF request.pattern.some
         THEN IF request.pattern_type = "Include"
              THEN [matcher EXCEPT !.include_patterns = Append(@, request.pattern.val)]
              ELSE [matcher EXCEPT !.exclude_patterns = Append(@, request.pattern.val)]
         ELSE matcher
    /\ pc' = "gitignore"
    /\ UNCHANGED <<given, scan_state, outputs>>

\* Lines 61-62: the patterns of <root>/.gitignore; `?` ends the run when
\* the file cannot be read.
AddGitignore ==
    /\ pc = "gitignore"
    /\ LET r == add_gitignore_patterns(matcher, gitignore_file,
                                       P_g \notin content_unreadable)
       IN  /\ matcher' = r.matcher
           /\ pc' = IF r.ok THEN "walk" ELSE "failed"
           /\ status' = IF r.ok THEN status ELSE "Error"
    /\ UNCHANGED <<given, scan_state, files_analyzed, total_size_bytes,
                   scratch, content>>

\* Lines 90-91: the statistics of the tree.
CountFiles ==
    /\ pc = "rendered"
    /\ files_analyzed' = count_files_lazy(tree)
    /\ total_size_bytes' = calculate_total_size_lazy(tree)
    /\ pc' = "counted"
    /\ UNCHANGED <<inputs, scan_state, scratch, content, status>>

\* Lines 97-98: the content is written to <root>/temp_content.txt; `?`
\* ends the run when that fails.
WriteContent ==
    /\ pc = "counted"
    /\ LET r == write_content_to_file(tree)
       IN  /\ scratch' = r.file
           /\ pc' = IF r.ok THEN "written" ELSE "failed"
           /\ status' = IF r.ok THEN status ELSE "Error"
    /\ UNCHANGED <<inputs, scan_state, files_analyzed, total_size_bytes, content>>

\* Mutant: the scratch file is left in the root.
ReadBack_KeepsFile ==
    /\ pc = "written"
    /\ content' = IF readback_ok THEN scratch.text ELSE ReadBackErrorText
    /\ pc' = "read"
    /\ UNCHANGED <<inputs, scan_state, files_analyzed, total_size_bytes, scratch, status>>

\* Lines 101-107: the content is read back (a failed read gives a fixed
\* text) and the file removed.
ReadBack ==
    /\ pc = "written"
    /\ content' = IF readback_ok THEN scratch.text ELSE ReadBackErrorText
    /\ scratch' = NoFile
    /\ pc' = "read"
    /\ UNCHANGED <<inputs, scan_state, files_analyzed, total_size_bytes, status>>

\* Lines 113-147: the response.
Respond ==
    /\ pc = "read"
    /\ status' = "Completed"
    /\ pc' = "completed"
    /\ UNCHANGED <<inputs, scan_state, files_analyzed, total_size_bytes,
                   scratch, content>>

Next ==
    \/ Walk
    \/ SpawnBatch
    \/ \E i \in DOMAIN task : Acquire(i)
    \/ \E i \in DOMAIN task : Finish(i)
    \/ JoinBatch
    \/ Build
    \/ Render

Spec == Init /\ [][Next]_vars

SpecPatterns == InitPatterns /\ [][Next]_vars

\* A whole run of process_repository after the clone.
InitRun ==
    /\ \/ /\ fs \in {BaseFs, ScenarioFs, LockedFs, LinkFs}
          /\ gitignore_file = NoFile
       \/ \E text \in GitignoreTexts :
             /\ fs = GitFs(text)
             /\ gitignore_file = [exists |-> TRUE, text |-> text]
    /\ readdir = CHOOSE r \in ReadDirOrders(fs) : TRUE
    /\ unreadable = {}
    /\ request \in Requests
    /\ content_unreadable \in {{}, {P_m}, {P_g}}
    /\ sink_ok \in BOOLEAN
    /\ readback_ok \in (IF sink_ok THEN BOOLEAN ELSE {TRUE})
    /\ matcher = PatternMatcher_default
    /\ max_file_size = 10
    /\ max_files \in {1, Cardinality(Entries(fs))}
    /\ max_depth = MaxDepthBound
    /\ concurrent_limit = 1
    /\ batch_size = MaxBatchBound
    /\ pc = "request"
    /\ ScanFresh
    /\ NoOutputs

NextRun ==
    \/ ApplyRequest
    \/ AddGitignore
    \/ Walk
    \/ SpawnBatch
    \/ \E i \in DOMAIN task : Acquire(i)
    \/ \E i \in DOMAIN task : Finish(i)
    \/ JoinBatch
    \/ Build
    \/ Render
    \/ CountFiles
    \/ WriteContent
    \/ ReadBack
    \/ Respond

SpecRun == InitRun /\ [][NextRun]_vars

\* Runs over the large files, with the limits of the scan fixed.
InitLarge ==
    /\ fs = BigFs
    /\ gitignore_file = NoFile
    /\ readdir = CHOOSE r \in ReadDirOrders(fs) : TRUE
    /\ unreadable = {}
    /\ request \in {r \in Requests : ~r.pattern.some /\ r.pattern_type = "None"}
    /\ content_unreadable \in {{}, {P_e}, {P_h}}
    /\ sink_ok \in BOOLEAN
    /\ readback_ok \in (IF sink_ok THEN BOOLEAN ELSE {TRUE})
    /\ matcher = PatternMatcher_default
    /\ max_file_size \in {10, LargeFileBytes, LargeFileBytes + 1}
    /\ max_files = Cardinality(Entries(fs))
    /\ max_depth = MaxDepthBound
    /\ concurrent_limit = 1
    /\ batch_size = MaxBatchBound
    /\ pc = "request"
    /\ ScanFresh
    /\ NoOutputs

SpecLarge == InitLarge /\ [][NextRun]_vars

\* Scans of two files whose names are drawn from ProbeNames; no file can
\* be read.
InitNames ==
    /\ \E a, b \in ProbeNames : a # b /\ fs = PairFs(a, b)
    /\ readdir = CHOOSE r \in ReadDirOrders(fs) : TRUE
    /\ unreadable = {}
    /\ matcher = EmptyMatcher
    /\ max_file_size = 2
    /\ max_files = Cardinality(Entries(fs))
    /\ max_depth = MaxDepthBound
    /\ concurrent_limit = 1
    /\ batch_size = MaxBatchBound
    /\ Start

SpecNames == InitNames /\ [][Next]_vars

\* Scans of a root with two files under every concurrent_file_limit and
\* batch_size the configuration accepts, 0 included (config.rs 88-94).
InitLimits ==
    /\ fs \in { PairFs(<<"a", ".", "r">>, <<"b", ".", "o">>),
                PairFs(<<"a", ".", "r">>, <<"a">>) }
    /\ readdir = CHOOSE r \in ReadDirOrders(fs) : TRUE
    /\ unreadable \in { {}, {Root \o << <<"a", ".", "r">> >>} }
    /\ matcher = EmptyMatcher
    /\ max_file_size = 2
    /\ max_files = Cardinality(Entries(fs))
    /\ max_depth = MaxDepthBound
    /\ concurrent_limit \in 0..MaxLimitBound
    /\ batch_size \in 0..MaxBatchBound
    /\ Start

NextLimits ==
    \/ Walk
    \/ ChunksPanic
    \/ SpawnBatch
    \/ \E i \in DOMAIN task : Acquire(i)
    \/ \E i \in DOMAIN task : Finish(i)
    \/ JoinBatch
    \/ Build
    \/ Render

\* The runtime polls every future of join_all that can go on.
SpecLimits == InitLimits /\ [][NextLimits]_vars /\ WF_vars(NextLimits)

(***************************************************************************)
(* Vocabulary of the properties.                                           *)
(***************************************************************************)
\* scan_directory_lazy has returned its tree.
Returned == pc \in {"scanned", "rendered", "counted", "written", "read", "completed"}
               \/ (pc = "failed" /\ tree # NoNode)

\* The node n and all nodes below it.
RECURSIVE NodesOf(_)
NodesOf(n) ==
    {n} \cup UNION {NodesOf(n.children[i]) : i \in 1..Len(n.children)}

\* The path text s matches some (well-formed) pattern of the list.
MatchesAny(patterns, s) == \E i \in 1..Len(patterns) : GlobMatch(patterns[i], s)

WellFormed(m) ==
    /\ build_glob_set(m.include_patterns).ok
    /\ build_glob_set(m.exclude_patterns).ok
    /\ build_glob_set(m.gitignore_patterns).ok

\* The fetches that hold a permit.
InFlight == {i \in DOMAIN task : task[i] = "running"}

(***************************************************************************)
(* C1  No path that matches an exclude pattern or a gitignore pattern is   *)
(* a node of the tree the scan returns.  The scan never consults the       *)
(* matcher to drop a path, so this fails.                                  *)
(***************************************************************************)
C1_ExcludedNeverInTree ==
    Returned =>
        \A n \in NodesOf(tree) :
            /\ ~MatchesAny(matcher.exclude_patterns, PathStr(n.path))
            /\ ~MatchesAny(matcher.gitignore_patterns, PathStr(n.path))

(***************************************************************************)
(* C2  With a non-empty include list, every File node of the returned      *)
(* tree matches an include pattern.  Fails for the same reason as C1.      *)
(***************************************************************************)
C2_FileNodesMatchInclude ==
    (Returned /\ matcher.include_patterns # <<>>) =>
        \A n \in NodesOf(tree) :
            n.node_type = "File" =>
                MatchesAny(matcher.include_patterns, PathStr(n.path))

\* The absolute and the root-relative text of every path of the file tree.
PathTexts == {PathStr(p) : p \in Entries(fs)} \cup {StripPrefix(p, Root) : p \in Entries(fs)}

(***************************************************************************)
(* C3  For a well-formed matcher should_include_file is true exactly when  *)
(* (the include list is empty or some include pattern matches) and no      *)
(* exclude pattern and no gitignore pattern matches; stated for the        *)
(* absolute and the root-relative text of every path of the file tree.     *)
(***************************************************************************)
C3_ShouldIncludeFile ==
    WellFormed(matcher) =>
        \A s \in PathTexts :
            should_include_file(matcher, s) =
                Ok( /\ (matcher.include_patterns = <<>>
                          \/ MatchesAny(matcher.include_patterns, s))
                    /\ ~MatchesAny(matcher.exclude_patterns, s)
                    /\ ~MatchesAny(matcher.gitignore_patterns, s) )

\* A fetch has evaluated should_include_file on a path that an include
\* pattern and also an exclude or gitignore pattern match, and got false.
C3_Witness ==
    /\ WellFormed(matcher)
    /\ \E i \in DOMAIN result :
          LET s == PathStr(all_files[i]) IN
          /\ result[i].ok
          /\ fs.size[all_files[i]] <= max_file_size
          /\ MatchesAny(matcher.include_patterns, s)
          /\ \/ MatchesAny(matcher.exclude_patterns, s)
             \/ MatchesAny(matcher.gitignore_patterns, s)
          /\ ~is_binary_file(all_files[i])
          /\ ~result[i].node.has_content

(***************************************************************************)
(* C4  The fetches that hold a permit never outnumber concurrent_limit.    *)
(***************************************************************************)
C4_InFlightBounded == Cardinality(InFlight) <= concurrent_limit

\* The gate binds: all permits are out and another fetch waits.
C4_Witness ==
    /\ Cardinality(InFlight) = concurrent_limit
    /\ concurrent_limit >= 2
    /\ \E i \in DOMAIN task : task[i] = "waiting"

(***************************************************************************)
(* C5  Batches run one after another: every future belongs to the current  *)
(* chunk, every file of an earlier chunk has had its result merged, no     *)
(* file of the current or a later chunk is merged yet, and at most         *)
(* batch_size futures exist.                                               *)
(***************************************************************************)
C5_BatchesSequential ==
    /\ DOMAIN task \subseteq chunk_start..(chunk_start + batch_size - 1)
    /\ Cardinality(DOMAIN task) <= batch_size
    /\ \A j \in 1..Len(all_files) :
          /\ (j < chunk_start) =>
                (all_files[j] \in DOMAIN file_nodes) = process_file_lazy(all_files[j]).ok
          /\ (j >= chunk_start) => all_files[j] \notin DOMAIN file_nodes

\* A later batch is in flight while an earlier one has been merged.
C5_Witness ==
    /\ chunk_start > 1
    /\ DOMAIN file_nodes # {}
    /\ InFlight # {}
    /\ chunk_start + batch_size - 1 < Len(all_files)

(***************************************************************************)
(* C6  Once the semaphore exists, free permits plus fetches in flight      *)
(* equal concurrent_limit, a future acquires before it fetches, and all    *)
(* permits are free when the scan has returned, also after a failed fetch. *)
(***************************************************************************)
C6_PermitsConserved ==
    /\ (pc # "walk") => permits + Cardinality(InFlight) = concurrent_limit
    /\ permits >= 0
    /\ \A i \in DOMAIN result : task[i] = "done"
    /\ Returned => permits = concurrent_limit

\* The scan has returned after a fetch that failed.
C6_Witness ==
    /\ Returned
    /\ permits = concurrent_limit
    /\ \E j \in 1..Len(all_files) :
          all_files[j] \in unreadable /\ all_files[j] \notin DOMAIN file_nodes

\* A children list with directories first and strictly ascending names in
\* each group.
SortedChildren(ch) ==
    \A i, j \in 1..Len(ch) :
        i < j =>
            /\ ~(ch[i].node_type = "File" /\ ch[j].node_type = "Directory")
            /\ (ch[i].node_type = ch[j].node_type) => StrLess(ch[i].name, ch[j].name)

(***************************************************************************)
(* C7  In the returned tree every children list has its Directory nodes    *)
(* before its File nodes, and the names of each group strictly ascend.     *)
(***************************************************************************)
C7_ChildrenSorted ==
    Returned => \A n \in NodesOf(tree) : SortedChildren(n.children)

\* A returned tree whose root holds a file and two directories, one of them
\* with two files, after a walk that listed the root's file first and the
\* two files in descending order.
C7_Witness ==
    /\ Returned
    /\ Len(tree.children) = 3
    /\ \E i \in 1..3 : Len(tree.children[i].children) = 2
    /\ readdir[Root][1] = P_b
    /\ readdir[P_s] = <<P_x, P_m>>

(***************************************************************************)
(* C8  In the returned tree the root node is the scan root, every node     *)
(* with children is a Directory, and every child lies directly in its      *)
(* parent node's directory; so the chain of nodes from the root to a File  *)
(* node is exactly the chain of its ancestor directories.                  *)
(***************************************************************************)
C8_AncestorsPresent ==
    Returned =>
        /\ tree.path = Root /\ tree.node_type = "Directory"
        /\ \A n \in NodesOf(tree) :
              \A i \in 1..Len(n.children) :
                  /\ n.node_type = "Directory"
                  /\ Parent(n.children[i].path) = n.path

\* A File node two levels below the root, under a directory that an exclude
\* pattern matches, in a tree whose walk was cut short by max_files.
C8_Witness ==
    /\ Returned
    /\ max_files < Cardinality(Entries(fs))
    /\ max_files < Len(WalkFrom(Root, 0))
    /\ \E n \in NodesOf(tree) :
          /\ n.node_type = "File"
          /\ Len(n.path) = Len(Root) + 2
          /\ MatchesAny(matcher.exclude_patterns, PathStr(Parent(n.path)))

\* The text of the tree built from the current maps with hash order ord.
RenderedWith(ord) ==
    generate_tree_string_lazy(
        build_lazy_directory_tree(Root, file_nodes, file_map, ord), <<>>, TRUE)

(***************************************************************************)
(* C9  Building and rendering the same metadata map and adjacency map      *)
(* gives the same text for every iteration order of the hash set of        *)
(* subdirectories; stated for the maps between two batches and the final   *)
(* ones.                                                                   *)
(***************************************************************************)
C9_RenderDeterministic ==
    /\ (pc = "chunks") =>
          LET first == RenderedWith(CHOOSE o \in HashOrders : TRUE)
          IN \A o \in HashOrders : RenderedWith(o) = first
    /\ (pc = "rendered") => \A o \in HashOrders : tree_text = RenderedWith(o)

\* A rendered tree with two subdirectories under the root and a file node.
C9_Witness ==
    /\ pc = "rendered"
    /\ Cardinality(Subdirectories(Root, file_map)) = 2
    /\ DOMAIN file_nodes # {}
    /\ Len(tree_text) > 0

\* The metadata map of the files of a list whose fetch succeeds.
FetchedNodes(files) ==
    LET ok == {files[i] : i \in {k \in 1..Len(files) : process_file_lazy(files[k]).ok}}
    IN [p \in ok |-> process_file_lazy(p).node]

\* The tree the inputs determine: every walked file fetched once, in order.
ExpectedTree ==
    build_lazy_directory_tree(
        Root, FetchedNodes(AllFilesOf(AllPaths)), FileMapOf(AllPaths, EmptyMap),
        CHOOSE o \in HashOrders : TRUE)

(***************************************************************************)
(* C10  The returned tree is the one the inputs alone determine, whatever  *)
(* the order in which the fetches of a batch ended, and no path is the     *)
(* path of two nodes.                                                      *)
(***************************************************************************)
C10_CompletionOrderIrrelevant ==
    (pc = "scanned") =>
        /\ tree = ExpectedTree
        /\ \A n1, n2 \in NodesOf(tree) : n1.path = n2.path => n1 = n2

\* The scan has returned after a batch in which a fetch ended before one
\* that was spawned before it.
C10_Witness ==
    /\ pc = "scanned"
    /\ reordered
    /\ Cardinality(DOMAIN file_nodes) >= 2

\* The File nodes of a tree.
FileNodes(t) == {n \in NodesOf(t) : n.node_type = "File"}

(***************************************************************************)
(* C11  In the returned tree a File node has content exactly when its      *)
(* size is at most max_file_size, its path passes should_include_file and  *)
(* its path is not binary (so a file of exactly max_file_size bytes has    *)
(* content and one of a byte more has none); a Directory node has no       *)
(* content and size 0.                                                     *)
(***************************************************************************)
C11_HasContent ==
    Returned =>
        \A n \in NodesOf(tree) :
            /\ n.node_type = "File" =>
                 /\ n.size = fs.size[n.path]
                 /\ n.has_content =
                      ( /\ n.size <= max_file_size
                        /\ should_include_file(matcher, PathStr(n.path)) = Ok(TRUE)
                        /\ ~is_binary_file(n.path) )
            /\ n.node_type = "Directory" => (~n.has_content /\ n.size = 0)

\* A returned tree with a file of exactly max_file_size bytes that has
\* content and a non-binary, included file of one byte more that has none.
C11_Witness ==
    /\ Returned
    /\ \E n, k \in FileNodes(tree) :
          /\ n.size = max_file_size /\ n.has_content
          /\ k.size = max_file_size + 1 /\ ~k.has_content
          /\ should_include_file(matcher, PathStr(k.path)) = Ok(TRUE)
          /\ ~is_binary_file(k.path)

\* The files under the root, within the depth bound, whose metadata can be
\* read and which pass should_include_file.
EligibleFiles ==
    LET walk == WalkFrom(Root, 0)
    IN  { p \in {walk[i] : i \in 1..Len(walk)} :
            /\ is_file(p)
            /\ p \notin unreadable
            /\ should_include_file(matcher, PathStr(p)) = Ok(TRUE) }

(***************************************************************************)
(* C12  When at least max_files eligible files are under the root, the     *)
(* returned tree has exactly max_files File nodes.  take(max_files) counts *)
(* every walked path, the root and the directories included, so this       *)
(* fails: with max_files = 1 only the root is walked.                      *)
(***************************************************************************)
C12_ExactlyMaxFiles ==
    (Returned /\ Cardinality(EligibleFiles) >= max_files) =>
        Cardinality(FileNodes(tree)) = max_files

(***************************************************************************)
(* C16  A file whose metadata fetch fails is no node of the returned tree, *)
(* its fetch is not run again, and every other fetched file has in the     *)
(* tree the node its own fetch gives.                                      *)
(***************************************************************************)
C16_FetchFailureDropsOneFile ==
    /\ \A i \in DOMAIN result : task[i] = "done" /\ i >= chunk_start
    /\ Returned =>
          /\ \A n \in NodesOf(tree) : n.path \notin unreadable
          /\ \A i \in 1..Len(all_files) :
                LET p == all_files[i]
                    own == process_file_lazy(p)
                IN  (p \notin unreadable /\ own.ok) => own.node \in NodesOf(tree)

\* A returned tree of a scan in which the fetch of s/m.r failed before the
\* fetch of s/x.o, a file of the same directory, succeeded.
C16_Witness ==
    /\ Returned
    /\ unreadable = {P_m}
    /\ \E i, j \in 1..Len(all_files) :
          i < j /\ all_files[i] = P_m /\ all_files[j] = P_x
    /\ \E n \in NodesOf(tree) : n.path = P_x
    /\ \A n \in NodesOf(tree) : n.path # P_m

\* process_repository has returned its response.
Completed == pc = "completed" /\ status = "Completed"

\* The patterns of a list.
PatternsOf(list) == {list[i] : i \in 1..Len(list)}

(***************************************************************************)
(* C13  For the root with src/main.txt (10 bytes) and target/out.bin and   *)
(* the exclude pattern target/**, a completed run has a tree with just     *)
(* the nodes src/ and main.txt below the root, a content of the            *)
(* src/main.txt section alone, files_analyzed = 1 and total_size_bytes =   *)
(* 10.  The scan drops no path and matches the absolute path, so this      *)
(* fails: target/ and out.bin are nodes, out.bin is counted and written.   *)
(***************************************************************************)
C13_ScenarioExcludeTarget ==
    ( /\ Completed
      /\ fs = ScenarioFs
      /\ max_files = Cardinality(Entries(fs))
      /\ matcher.include_patterns = <<>>
      /\ <<"t", "a", "r", "g", "e", "t", "/", "*", "*">> \in PatternsOf(matcher.exclude_patterns) ) =>
        /\ {n.path : n \in NodesOf(tree)} = {Root, P_src, P_main}
        /\ content = <<"s", "r", "c", "/", "m", "a", "i", "n", ".", "t", "x", "t", ":", "\n">> \o [i \in 1..48 |-> "="] \o <<"\n">>
                     \o [i \in 1..10 |-> "m"] \o <<"\n", "\n">>
        /\ files_analyzed = 1
        /\ total_size_bytes = 10

(***************************************************************************)
(* C14  With a malformed glob in a list of the matcher the run ends before *)
(* the scan: nothing is walked, no fetch is started and no Completed       *)
(* response is made.  No list is compiled when the matcher is built, so    *)
(* this fails: the scan runs and the run completes.                        *)
(***************************************************************************)
C14_MalformedAbortsBeforeScan ==
    ~WellFormed(matcher) =>
        /\ all_files = <<>>
        /\ file_map = EmptyMap
        /\ DOMAIN task = {}
        /\ status # "Completed"

(***************************************************************************)
(* C15  When the root cannot be listed the scan returns no tree and the    *)
(* run has no Completed response.  The error of the walk is dropped, so    *)
(* this fails: the scan returns a tree of the root alone.                  *)
(***************************************************************************)
C15_UnreadableRootAborts ==
    Root \in fs.noread => (~Returned /\ status # "Completed")

\* The trimmed lines of a .gitignore text that are not blank and start
\* with neither "#" nor "!", in the order of the file.
KeptLine(l) == l # <<>> /\ Head(l) \notin {"#", "!"}
KeptLines(text) ==
    LET ls == Lines(text, <<>>)
    IN  SelectSeq([i \in 1..Len(ls) |-> Trim(ls[i])], KeptLine)

C18_DirectoryLinesWidened ==
    (pc = "walk" /\ gitignore_file.exists) =>
        \A l \in PatternsOf(KeptLines(gitignore_file.text)) :
            l[Len(l)] = "/" =>
                (l \o <<"*", "*">>) \in PatternsOf(matcher.gitignore_patterns)

(***************************************************************************)
(* C19  The matcher the scan is given holds every default exclude          *)
(* pattern, every kept .gitignore line, every entry of the request's       *)
(* include_patterns in its include list and every entry of the request's   *)
(* exclude_patterns in its exclude list.  process_repository reads only    *)
(* request.pattern, so the last two fail.                                  *)
(***************************************************************************)
C19_MatcherHoldsAllSources ==
    pc = "walk" =>
        /\ PatternsOf(default_exclude_patterns) \subseteq PatternsOf(matcher.exclude_patterns)
        /\ gitignore_file.exists =>
              PatternsOf(KeptLines(gitignore_file.text))
                  \subseteq PatternsOf(matcher.gitignore_patterns)
        /\ request.include_patterns.some =>
              PatternsOf(request.include_patterns.val)
                  \subseteq PatternsOf(matcher.include_patterns)
        /\ request.exclude_patterns.some =>
              PatternsOf(request.exclude_patterns.val)
                  \subseteq PatternsOf(matcher.exclude_patterns)

\* The nodes of a tree in depth-first order, a node before its children.
RECURSIVE Preorder(_)
RECURSIVE PreorderAll(_, _)
Preorder(n) == <<n>> \o PreorderAll(n.children, 1)
PreorderAll(children, i) ==
    IF i > Len(children) THEN <<>>
    ELSE Preorder(children[i]) \o PreorderAll(children, i + 1)

WithContent(n) == n.node_type = "File" /\ n.has_content

\* The section of a node: header line, separator line, body.
SectionOf(n) ==
    n.relative_path \o <<":", "\n">> \o [i \in 1..48 |-> "="] \o <<"\n">> \o Body(n)

RECURSIVE SectionsOf(_)
SectionsOf(nodes) ==
    IF nodes = <<>> THEN <<>>
    ELSE SectionOf(Head(nodes)) \o SectionsOf(Tail(nodes))

(***************************************************************************)
(* C20  The text written to the scratch file, and the content read back    *)
(* from it, is the sequence of the sections of the File nodes that have    *)
(* content, one section a node, in the depth-first order of the tree, and  *)
(* nothing else.                                                           *)
(***************************************************************************)
C20_OneSectionPerContentFile ==
    LET files == SelectSeq(Preorder(tree), WithContent)
    IN  /\ pc = "written" => (scratch.exists /\ scratch.text = SectionsOf(files))
        /\ pc \in {"read", "completed"} =>
              /\ readback_ok => content = SectionsOf(files)
              /\ Len(files) = Cardinality({n \in NodesOf(tree) : WithContent(n)})

\* A completed run over b.r, s/m.r, s/x.o, t/o.r: three files with content
\* in two directories and a file without content.
C20_Witness ==
    /\ Completed
    /\ fs = BaseFs
    /\ Cardinality({n \in NodesOf(tree) : WithContent(n)}) = 3
    /\ \E n \in FileNodes(tree) : ~n.has_content
    /\ content # <<>>

\* The body a section is to have: the notice for a file of more than
\* 100000 bytes, the placeholder for a file that cannot be read, else the
\* text of the file and an empty line.
ExpectedBody(n) ==
    IF n.size > 100000
    THEN <<"[", "L", "a", "r", "g", "e", " ", "f", "i", "l", "e", " ", "c", "o", "n", "t", "e", "n", "t", " ", "t", "r", "u", "n", "c", "a", "t", "e", "d", " ", "-", " ">> \o Decimal(n.size) \o <<" ", "b", "y", "t", "e", "s", "]", "\n", "\n">>
    ELSE IF n.path \in content_unreadable
    THEN <<"[", "E", "r", "r", "o", "r", " ", "r", "e", "a", "d", "i", "n", "g", " ", "f", "i", "l", "e", " ", "c", "o", "n", "t", "e", "n", "t", "]", "\n", "\n">>
    ELSE FileText(n.path) \o <<"\n", "\n">>

RECURSIVE ExpectedSections(_)
ExpectedSections(nodes) ==
    IF nodes = <<>> THEN <<>>
    ELSE Head(nodes).relative_path \o <<":", "\n">> \o [i \in 1..48 |-> "="]
         \o <<"\n">> \o ExpectedBody(Head(nodes))
         \o ExpectedSections(Tail(nodes))

ExpectedContent == ExpectedSections(SelectSeq(Preorder(tree), WithContent))

(***************************************************************************)
(* C21  In the text written to the scratch file the body of a file with    *)
(* content is the truncation notice exactly when the file has more than    *)
(* 100000 bytes, whatever max_file_size is and whether or not the file     *)
(* can be read; a file of exactly 100000 bytes has its full text.          *)
(***************************************************************************)
C21_TruncationAboveThreshold ==
    pc = "written" => (scratch.exists /\ scratch.text = ExpectedContent)

\* The scratch file holds the sections of a file of 100000 bytes and of a
\* file of 100001 bytes that cannot be read.
C21_Witness ==
    /\ pc = "written"
    /\ content_unreadable = {P_h}
    /\ \E n, k \in FileNodes(tree) :
          /\ n.has_content /\ n.size = 100000
          /\ k.has_content /\ k.size = 100001 /\ k.path = P_h
    /\ Len(scratch.text) > 100000
    /\ Len(scratch.text) < 100300

(***************************************************************************)
(* C22  A file with content that cannot be read gets the placeholder as    *)
(* its body, the sections of the files after it are written as ever, and   *)
(* the run ends Completed; after the scan the run ends with an error only  *)
(* when the scratch file cannot be created or written.                     *)
(***************************************************************************)
C22_ReadFailureGivesPlaceholder ==
    /\ (pc = "failed" /\ tree # NoNode) => ~sink_ok
    /\ pc \in {"written", "read", "completed"} => sink_ok
    /\ pc = "read" => (readback_ok => content = ExpectedContent)
    /\ pc = "completed" =>
          /\ status = "Completed"
          /\ readback_ok => content = ExpectedContent

\* A completed run in which s/m.r, the first file with content, could not
\* be read and t/o.r and b.r were written after it.
C22_Witness ==
    /\ Completed
    /\ fs = BaseFs
    /\ content_unreadable = {P_m}
    /\ readback_ok
    /\ \A q \in {P_m, P_o, P_b} :
          \E n \in FileNodes(tree) : n.path = q /\ n.has_content
    /\ content = ExpectedContent

\* The lower-cased extension of a file name.
LowerExt(name) ==
    LET e == Extension(name)
    IN  [some |-> e.some, ext |-> [i \in 1..Len(e.ext) |-> ToLower(e.ext[i])]]

(***************************************************************************)
(* C23  With an empty matcher and small files, has_content of a File node  *)
(* is the negation of is_binary_file: two files whose lower-cased          *)
(* extensions are equal get the same answer, a file without extension is   *)
(* text, and the answer is whether the lower-cased extension is in the     *)
(* fixed set.                                                              *)
(***************************************************************************)
C23_BinaryByExtension ==
    Returned =>
        \A n, k \in FileNodes(tree) :
            /\ LowerExt(n.name) = LowerExt(k.name) => n.has_content = k.has_content
            /\ ~LowerExt(n.name).some => n.has_content
            /\ n.has_content = ~(LowerExt(n.name).some
                                  /\ LowerExt(n.name).ext \in BinaryExtensions)

\* A returned tree with a.PNG and a.png, both binary, or with a.O and
\* .o, the first binary and the second without extension.
C23_Witness ==
    /\ Returned
    /\ \E n, k \in FileNodes(tree) :
          /\ n.name = <<"a", ".", "P", "N", "G">> /\ k.name = <<"a", ".", "p", "n", "g">>
          /\ ~n.has_content /\ ~k.has_content

\* The directories strictly between the root and a path.
Ancestors(p) == {SubSeq(p, 1, k) : k \in (Len(Root) + 1)..(Len(p) - 1)}

(***************************************************************************)
(* C24  With a well-formed matcher, a fetch is started only for a file     *)
(* that passes should_include_file and whose directories below the root    *)
(* all pass should_include_directory.  The scan consults neither before    *)
(* the fetch (should_include_directory has no caller), so this fails.      *)
(***************************************************************************)
C24_FilterBeforeFetch ==
    WellFormed(matcher) =>
        \A i \in DOMAIN task :
            task[i] # "waiting" =>
                /\ should_include_file(matcher, PathStr(all_files[i])) = Ok(TRUE)
                /\ \A d \in Ancestors(all_files[i]) :
                      should_include_directory(matcher, PathStr(d)) = Ok(TRUE)

\* The node of a path among the nodes of a tree.
NodeAt(nodes, q) == CHOOSE n \in nodes : n.path = q

\* The root, or the last child of its parent node.
IsLastSibling(nodes, q) ==
    \/ q = Root
    \/ LET par == NodeAt(nodes, Parent(q))
       IN  par.children[Len(par.children)].path = q

\* One marker for every ancestor, the root first.
RECURSIVE AncestorMarkers(_, _)
AncestorMarkers(nodes, q) ==
    IF q = Root THEN <<>>
    ELSE AncestorMarkers(nodes, Parent(q))
         \o (IF IsLastSibling(nodes, Parent(q))
             THEN <<" ", " ", " ", " ">>
             ELSE <<"|", " ", " ", " ">>)

LineOf(nodes, n) ==
    AncestorMarkers(nodes, n.path)
    \o (IF IsLastSibling(nodes, n.path)
        THEN <<"L", "-", "-", " ">>
        ELSE <<"+", "-", "-", " ">>)
    \o n.name
    \o (IF n.node_type = "Directory" THEN <<"/">> ELSE <<>>)
    \o <<"\n">>

RECURSIVE LinesOf(_, _)
LinesOf(nodes, sq) ==
    IF sq = <<>> THEN <<>>
    ELSE LineOf(nodes, Head(sq)) \o LinesOf(nodes, Tail(sq))

(***************************************************************************)
(* C25  The rendered text is one line for every node of the tree, a node   *)
(* before its children and the children in their order; a line is one      *)
(* marker for every ancestor (blank below a last sibling, a bar            *)
(* otherwise), the corner connector for a last child and the tee for any   *)
(* other, the name, and "/" after the name of a Directory.                 *)
(***************************************************************************)
C25_OneLinePerNode ==
    pc = "rendered" => tree_text = LinesOf(NodesOf(tree), Preorder(tree))

\* A rendered tree with a node two levels below the root whose directory
\* is not the last child of the root.
C25_Witness ==
    /\ pc = "rendered"
    /\ \E n \in NodesOf(tree) :
          /\ Len(n.path) = Len(Root) + 2
          /\ ~IsLastSibling(NodesOf(tree), Parent(n.path))
          /\ IsLastSibling(NodesOf(tree), n.path)

\* The sum of the sizes of a set of nodes.
RECURSIVE SumSizes(_)
SumSizes(nodes) ==
    IF nodes = {} THEN 0
    ELSE LET n == CHOOSE x \in nodes : TRUE
         IN  n.size + SumSizes(nodes \ {n})

\* A tree of a Symlink node, a File node without content and a directory
\* with a File node.
SampleTree ==
    FileNodeLazy(<<"r">>, Root, <<>>, "Directory", 0, FALSE,
        << FileNodeLazy(<<"l">>, Root \o << <<"l">> >>, <<"l">>, "Symlink", 5, FALSE, <<>>),
           FileNodeLazy(<<"s">>, P_s, <<>>, "Directory", 0, FALSE,
               << FileNodeLazy(<<"x", ".", "o">>, P_x, <<"s", "/", "x", ".", "o">>,
                               "File", 4, FALSE, <<>>) >>),
           FileNodeLazy(<<"b", ".", "r">>, P_b, <<"b", ".", "r">>, "File", 3, TRUE, <<>>) >>)

(***************************************************************************)
(* C26  files_analyzed is the number of File nodes of the tree and         *)
(* total_size_bytes the sum of their sizes, with or without content; a     *)
(* Symlink node adds nothing to either.                                    *)
(***************************************************************************)
C26_StatisticsCountFileNodes ==
    /\ pc \in {"counted", "written", "read", "completed"} =>
          /\ files_analyzed = Cardinality(FileNodes(tree))
          /\ total_size_bytes = SumSizes(FileNodes(tree))
    /\ count_files_lazy(SampleTree) = 2
    /\ calculate_total_size_lazy(SampleTree) = 7

\* A completed run over b.r, s/m.r, s/x.o (no content), t/o.r.
C26_Witness ==
    /\ Completed
    /\ fs = BaseFs
    /\ files_analyzed = 4
    /\ total_size_bytes = 8
    /\ \E n \in FileNodes(tree) : ~n.has_content

(***************************************************************************)
(* C27  A symbolic link to a directory is a Symlink node without children  *)
(* in the returned tree.  is_dir follows the link, so the tree builder     *)
(* makes it a Directory node (without children): this fails.               *)
(***************************************************************************)
C27_SymlinkKind ==
    Returned =>
        \A n \in NodesOf(tree) :
            fs.kind[n.path] = "symlink" =>
                (n.node_type = "Symlink" /\ n.children = <<>>)

\* The number of levels of a path below the root.
Depth(q) == Len(q) - Len(Root)

(***************************************************************************)
(* C28  No path more than max_depth levels below the root is among the     *)
(* files to fetch, in the adjacency map, in the metadata map or a node of  *)
(* the returned tree.                                                      *)
(***************************************************************************)
C28_DepthBounded ==
    /\ \A i \in 1..Len(all_files) : Depth(all_files[i]) <= max_depth
    /\ \A d \in DOMAIN file_map :
          \A i \in 1..Len(file_map[d]) : Depth(file_map[d][i]) <= max_depth
    /\ \A q \in DOMAIN file_nodes : Depth(q) <= max_depth
    /\ Returned => \A n \in NodesOf(tree) : Depth(n.path) <= max_depth

\* A returned tree of a scan with max_depth 1 over a file tree with
\* entries two levels below the root: s/ is a node, nothing below it is.
C28_Witness ==
    /\ Returned
    /\ max_depth = 1
    /\ max_files = Cardinality(Entries(fs))
    /\ \E q \in Entries(fs) : Depth(q) = 2
    /\ \E n \in NodesOf(tree) : n.path = P_s /\ n.children = <<>>

(***************************************************************************)
(* C29  Under fair scheduling the scan returns, for every                  *)
(* concurrent_file_limit and batch_size from 0 on.  With batch_size 0 the  *)
(* chunking panics, and with concurrent_file_limit 0 no fetch ever gets a  *)
(* permit, so this fails.                                                  *)
(***************************************************************************)
C29_ScanEventuallyReturns == <>Returned

====
